---- MODULE Spec2Model ----
(***************************************************************************)
(* Event-management REST API (express + prisma).  The shared state is the  *)
(* relational store (User, Event, Registration, Feedback); every request   *)
(* is a chain of store operations separated by awaits, so one action is    *)
(* one store operation together with the synchronous code that follows it  *)
(* up to the next await (or up to the response).                           *)
(***************************************************************************)
EXTENDS Integers, Sequences, FiniteSets, TLC

(***************************************************************************)
(* Bounds of the model.                                                    *)
(***************************************************************************)
MaxEvents == 1      \* events ever created (Event.id is autoincrement)
MaxTokens == 2      \* reset tokens ever generated (uuidv4 never repeats)
MaxHours  == 1      \* observed time points: whole token lifetimes ...
MaxSkew   == 1      \* ... plus this many milliseconds
MaxNewUsers == 2    \* users ever created by POST /auth/register (User.id is autoincrement)
MaxSessions == 2    \* distinct bearer tokens login hands out

(***************************************************************************)
(* Program constants.                                                      *)
(***************************************************************************)
ResetTokenTTL == 3600000   \* new Date(Date.now() + 3600000)

Roles == {"ADMIN", "ORGANIZER", "ATTENDEE"}

UserIds  == 1 .. 4
EventIds == 1 .. (MaxEvents + 1)     \* the last id is never created
Pairs    == UserIds \X EventIds      \* (userId, eventId)
Texts    == {"t1", "t2"}             \* request body strings
Passwords == {"pw1", "pw2"}
ResetTokens == 1 .. MaxTokens
TimePoints  == { h * ResetTokenTTL + s : h \in 0 .. (MaxHours + 1), s \in 0 .. MaxSkew }
Slots == {1, 2}                      \* requests in flight at once

NoToken  == 0                        \* resetToken: null
NoExpiry == -1                       \* resetTokenExpiry: null
JwtExpiresIn == 3600                 \* expiresIn: '1h', in seconds
MsPerSecond  == 1000                 \* Date.now() is in milliseconds, exp in seconds

\* A bearer token: the payload { id, exp } and whether the signature is the
\* one jwtSecret produces.
BadToken == [id |-> 0, exp |-> 0, signed |-> FALSE]   \* missing or malformed header
NoBody   == [kind |-> "none"]                         \* a response with a message only

VARIABLES
    users,        \* User table: id -> [email, password, role, resetToken, resetTokenExpiry]
    events,       \* Event table: id -> [title, organizerId]
    nextEventId,  \* Event.id autoincrement sequence
    regs,         \* Registration table: (userId, eventId) -> number of rows
    feedbacks,    \* Feedback table: (userId, eventId) -> the rows' texts
    req,          \* slot -> the request being served there and its response
    now,          \* Date.now()
    nextToken,    \* the next uuidv4() value
    creator,      \* history: event id -> the user whose request created it
    everReg,      \* history: the pairs that have had a Registration row
    consumed,     \* history: the reset tokens a reset-password request accepted
    nextUserId,   \* User.id autoincrement sequence
    issued,       \* history: the bearer tokens login has handed out
    supplied      \* history: user id -> the plaintext last supplied for its password

vars == <<users, events, nextEventId, regs, feedbacks, req, now, nextToken,
          creator, everReg, consumed, nextUserId, issued, supplied>>

(***************************************************************************)
(* Error model: AppError and the centralized errorHandler.                 *)
(***************************************************************************)
RECURSIVE FirstDigit(_)
FirstDigit(n) == IF n < 10 THEN n ELSE FirstDigit(n \div 10)

\* new AppError(message, statusCode)
AppError(message, statusCode) ==
    [name |-> "Error", code |-> "none", message |-> message,
     statusCode |-> statusCode,
     status |-> IF FirstDigit(statusCode) = 4 THEN "fail" ELSE "error"]

\* The errors the prisma client throws: no statusCode, no status.
P2002Message == "Unique constraint failed on the fields: (userId,eventId)"
P2003Message == "Foreign key constraint failed on the field: Registration_eventId_fkey (index)"
P2025Message == "An operation failed because it depends on one or more records that were required but not found."

PrismaError(code) ==
    [name |-> "PrismaClientKnownRequestError", code |-> code,
     message |-> CASE code = "P2002" -> P2002Message
                   [] code = "P2003" -> P2003Message
                   [] OTHER          -> P2025Message,
     statusCode |-> 0, status |-> "none"]

\* String.prototype.includes is case sensitive: "Not authorized" does not
\* include "not authorized", "Method not allowed" does not include
\* "method not allowed", "No user found with this id" does not include "not found".
Includes(message, pattern) ==
    <<message, pattern>> \in { <<"Event not found", "not found">>,
                               <<P2025Message, "not found">> }

\* errorHandler(err, req, res, next): the response it sends.
errorHandler(err) ==
    LET statusCode == IF err.statusCode = 0 THEN 500 ELSE err.statusCode
        status     == IF err.status = "none" THEN "error" ELSE err.status
    IN  CASE err.name = "JsonWebTokenError" ->
               [code |-> 401, status |-> status, message |-> "Invalid token. Please log in again."]
          [] err.name = "TokenExpiredError" ->
               [code |-> 401, status |-> status, message |-> "Your token has expired. Please log in again."]
          [] Includes(err.message, "method not allowed") ->
               [code |-> 405, status |-> status, message |-> "This method is not allowed for the requested endpoint."]
          [] err.code = "P2002" ->
               [code |-> 400, status |-> status, message |-> "Duplicate field value entered."]
          [] Includes(err.message, "not authorized") ->
               [code |-> 403, status |-> status, message |-> "You are not authorized to perform this action."]
          [] Includes(err.message, "not found") ->
               [code |-> 404, status |-> status, message |-> "Resource not found."]
          [] OTHER ->
               [code |-> statusCode, status |-> status, message |-> err.message]

\* res.status(code).json({ message }) and res.status(code).json({ <record> }):
\* a body without a status field.
Json(code, message) == [code |-> code, status |-> "none", message |-> message]

(***************************************************************************)
(* Requests.                                                               *)
(***************************************************************************)
NoResp == [code |-> 0, status |-> "none", message |-> ""]

IdleReq == [route |-> "none", pc |-> "idle", user |-> 0, role |-> "none",
            eid |-> 0, email |-> "", text |-> "", tokn |-> NoToken, expiry |-> NoExpiry,
            auth |-> BadToken, resp |-> NoResp, body |-> NoBody,
            disconnected |-> FALSE]

Free(r) == req[r].pc \in {"idle", "done"}

\* The response is sent and the handler is over; `disc` tells whether the
\* handler's finally block ran prisma.$disconnect().
Finish(r, resp, disc) ==
    req' = [req EXCEPT ![r] = [IdleReq EXCEPT !.route = req[r].route, !.pc = "done",
                                              !.resp = resp, !.disconnected = disc]]

Goto(r, pc) == req' = [req EXCEPT ![r].pc = pc]

FirstPc(route) ==
    CASE route = "createEvent" -> "create"
      [] route = "updateEvent" -> "updateFind"
      [] route = "deleteEvent" -> "deleteFind"
      [] route = "register"    -> "registerFindEvent"
      [] route = "unregister"  -> "unregister"
      [] route = "feedback"    -> "feedbackFindReg"
      [] route = "deleteAccount" -> "deleteAccount"

\* The routes whose handler reads req.body.
BodyRoutes == {"createEvent", "updateEvent", "feedback"}

InFlight(route) == Cardinality({ s \in Slots : ~Free(s) /\ req[s].route = route })

\* Mutant: the payload carries the id of the first user, whoever logs in.
SignFirstUser(id, t) == [id |-> 1, exp |-> (t \div MsPerSecond) + JwtExpiresIn, signed |-> TRUE]

\* jwt.sign({ id }, jwtSecret, { expiresIn: "1h" }) at time t (milliseconds):
\* exp = iat + 3600 with iat = floor(t / 1000).
Sign(id, t) == [id |-> id, exp |-> (t \div MsPerSecond) + JwtExpiresIn, signed |-> TRUE]

\* jwt.verify(token, jwtSecret): throws on a missing or malformed token, on a
\* signature jwtSecret did not produce, and once floor(now / 1000) >= exp.
Verify(tok) == tok.signed /\ (now \div MsPerSecond) < tok.exp

\* Mutant: the token is decoded and its signature and expiry are not checked.
ProtectNoVerify(r, route, tok, eid, text) ==
    /\ Free(r)
    /\ route = "createEvent" => nextEventId + InFlight("createEvent") <= MaxEvents
    /\ IF tok.id \notin DOMAIN users
       THEN req' = [req EXCEPT ![r] = [IdleReq EXCEPT !.route = route, !.pc = "done",
                         !.auth = tok,
                         !.resp = errorHandler(AppError("No user found with this id", 404))]]
       ELSE req' = [req EXCEPT ![r] =
                        [IdleReq EXCEPT !.route = route, !.pc = FirstPc(route),
                                        !.auth = tok,
                                        !.user = tok.id, !.role = users[tok.id].role,
                                        !.eid = eid,
                                        !.text = IF route \in BodyRoutes THEN text ELSE ""]]
    /\ UNCHANGED <<users, events, nextEventId, regs, feedbacks, now, nextToken,
                   creator, everReg, consumed, nextUserId, issued, supplied>>

\* protect: jwt.verify, then prisma.user.findUnique({ id: decoded.id }).
\* Any throw (no header, bad signature, expired) is answered 401; an id that
\* resolves to no user is answered 404; protect has no finally block.
Protect(r, route, tok, eid, text) ==
    /\ Free(r)
    /\ route = "createEvent" => nextEventId + InFlight("createEvent") <= MaxEvents
    /\ IF ~Verify(tok)
       THEN req' = [req EXCEPT ![r] = [IdleReq EXCEPT !.route = route, !.pc = "done",
                         !.auth = tok,
                         !.resp = errorHandler(AppError("Not authorized", 401))]]
       ELSE IF tok.id \notin DOMAIN users
       THEN req' = [req EXCEPT ![r] = [IdleReq EXCEPT !.route = route, !.pc = "done",
                         !.auth = tok,
                         !.resp = errorHandler(AppError("No user found with this id", 404))]]
       ELSE req' = [req EXCEPT ![r] =
                        [IdleReq EXCEPT !.route = route, !.pc = FirstPc(route),
                                        !.auth = tok,
                                        !.user = tok.id, !.role = users[tok.id].role,
                                        !.eid = eid,
                                        !.text = IF route \in BodyRoutes THEN text ELSE ""]]
    /\ UNCHANGED <<users, events, nextEventId, regs, feedbacks, now, nextToken,
                   creator, everReg, consumed,
                   nextUserId, issued, supplied>>

(***************************************************************************)
(* Store constraints of the schema.                                        *)
(***************************************************************************)
\* Mutant: Registration carries no unique constraint on the pair.
RegistrationNotUnique(u, e) == FALSE

\* @@unique([userId, eventId]) on Registration (where: { userId_eventId }).
RegistrationUniqueViolated(u, e) == regs[<<u, e>>] > 0

\* Registration.event is a relation to Event (include: { event: true }): a
\* row cannot be inserted for a missing event ...
RegistrationFkViolated(e) == e \notin DOMAIN events

\* ... and an event that rows still reference cannot be deleted (the handler
\* deletes the rows first for that reason).
EventDeleteRestricted(e) == \E u \in UserIds : regs[<<u, e>>] > 0

\* Feedback primary key (userId, eventId).
FeedbackUniqueViolated(u, e) == Len(feedbacks[<<u, e>>]) > 0

(***************************************************************************)
(* POST /events                                                            *)
(***************************************************************************)
CreateEvent(r) ==
    /\ req[r].pc = "create"
    /\ IF req[r].role # "ORGANIZER"
       THEN /\ Finish(r, errorHandler(AppError("You do not have permission to perform this action", 403)), TRUE)
            /\ UNCHANGED <<events, nextEventId, creator>>
       ELSE /\ events' = [id \in DOMAIN events \cup {nextEventId} |->
                             IF id = nextEventId
                             THEN [title |-> req[r].text, organizerId |-> req[r].user]
                             ELSE events[id]]
            /\ creator' = [creator EXCEPT ![nextEventId] = req[r].user]
            /\ nextEventId' = nextEventId + 1
            /\ Finish(r, Json(201, "event"), TRUE)
    /\ UNCHANGED <<users, regs, feedbacks, now, nextToken, everReg, consumed,
                   nextUserId, issued, supplied>>

(***************************************************************************)
(* PUT /events/:eventId                                                    *)
(***************************************************************************)
\* Mutant: the handler without its ownership check.
UpdateEventFindNoOwnerCheck(r) ==
    /\ req[r].pc = "updateFind"
    /\ IF req[r].role = "ATTENDEE"
       THEN Finish(r, errorHandler(AppError("You do not have permission to perform this action", 403)), TRUE)
       ELSE IF req[r].eid \notin DOMAIN events
       THEN Finish(r, Json(404, "Event not found"), TRUE)
       ELSE Goto(r, "updateWrite")
    /\ UNCHANGED <<users, events, nextEventId, regs, feedbacks, now, nextToken,
                   creator, everReg, consumed,
                   nextUserId, issued, supplied>>

\* Role check, prisma.event.findUnique, ownership check.
UpdateEventFind(r) ==
    /\ req[r].pc = "updateFind"
    /\ IF req[r].role = "ATTENDEE"
       THEN Finish(r, errorHandler(AppError("You do not have permission to perform this action", 403)), TRUE)
       ELSE IF req[r].eid \notin DOMAIN events
       THEN Finish(r, Json(404, "Event not found"), TRUE)
       ELSE IF events[req[r].eid].organizerId # req[r].user /\ req[r].role # "ADMIN"
       THEN Finish(r, Json(403, "Forbidden: You do not have permission to update this event"), TRUE)
       ELSE Goto(r, "updateWrite")
    /\ UNCHANGED <<users, events, nextEventId, regs, feedbacks, now, nextToken,
                   creator, everReg, consumed,
                   nextUserId, issued, supplied>>

\* Mutant: the update also writes organizerId: req.user.id.
UpdateEventWriteTakesOwnership(r) ==
    /\ req[r].pc = "updateWrite"
    /\ IF req[r].eid \notin DOMAIN events
       THEN /\ Finish(r, errorHandler(PrismaError("P2025")), TRUE)
            /\ UNCHANGED events
       ELSE /\ events' = [events EXCEPT ![req[r].eid] =
                             [title |-> req[r].text, organizerId |-> req[r].user]]
            /\ Finish(r, Json(200, "Event updated successfully"), TRUE)
    /\ UNCHANGED <<users, nextEventId, regs, feedbacks, now, nextToken,
                   creator, everReg, consumed,
                   nextUserId, issued, supplied>>

\* prisma.event.update({ where: { id }, data: { title, description, date, location } })
UpdateEventWrite(r) ==
    /\ req[r].pc = "updateWrite"
    /\ IF req[r].eid \notin DOMAIN events
       THEN /\ Finish(r, errorHandler(PrismaError("P2025")), TRUE)
            /\ UNCHANGED events
       ELSE /\ events' = [events EXCEPT ![req[r].eid].title = req[r].text]
            /\ Finish(r, Json(200, "Event updated successfully"), TRUE)
    /\ UNCHANGED <<users, nextEventId, regs, feedbacks, now, nextToken,
                   creator, everReg, consumed,
                   nextUserId, issued, supplied>>

(***************************************************************************)
(* DELETE /events/:eventId                                                 *)
(***************************************************************************)
\* Mutant: the handler without its role check.
DeleteEventFindNoRoleCheck(r) ==
    /\ req[r].pc = "deleteFind"
    /\ IF req[r].eid \notin DOMAIN events
       THEN Finish(r, Json(404, "Event not found"), TRUE)
       ELSE IF events[req[r].eid].organizerId # req[r].user /\ req[r].role # "ADMIN"
       THEN Finish(r, Json(403, "Forbidden: You do not have permission to delete this event"), TRUE)
       ELSE Goto(r, "deleteRegs")
    /\ UNCHANGED <<users, events, nextEventId, regs, feedbacks, now, nextToken,
                   creator, everReg, consumed,
                   nextUserId, issued, supplied>>

\* Role check, prisma.event.findUnique, ownership check.
DeleteEventFind(r) ==
    /\ req[r].pc = "deleteFind"
    /\ IF req[r].role = "ATTENDEE"
       THEN Finish(r, errorHandler(AppError("You do not have permission to perform this action", 403)), TRUE)
       ELSE IF req[r].eid \notin DOMAIN events
       THEN Finish(r, Json(404, "Event not found"), TRUE)
       ELSE IF events[req[r].eid].organizerId # req[r].user /\ req[r].role # "ADMIN"
       THEN Finish(r, Json(403, "Forbidden: You do not have permission to delete this event"), TRUE)
       ELSE Goto(r, "deleteRegs")
    /\ UNCHANGED <<users, events, nextEventId, regs, feedbacks, now, nextToken,
                   creator, everReg, consumed,
                   nextUserId, issued, supplied>>

\* Mutant: deleteMany({ where: { eventId, userId: req.user.id } }).
DeleteEventRegsOwnOnly(r) ==
    /\ req[r].pc = "deleteRegs"
    /\ regs' = [regs EXCEPT ![<<req[r].user, req[r].eid>>] = 0]
    /\ Goto(r, "deleteRow")
    /\ UNCHANGED <<users, events, nextEventId, feedbacks, now, nextToken,
                   creator, everReg, consumed,
                   nextUserId, issued, supplied>>

\* prisma.registration.deleteMany({ where: { eventId } })
DeleteEventRegs(r) ==
    /\ req[r].pc = "deleteRegs"
    /\ regs' = [p \in Pairs |-> IF p[2] = req[r].eid THEN 0 ELSE regs[p]]
    /\ Goto(r, "deleteRow")
    /\ UNCHANGED <<users, events, nextEventId, feedbacks, now, nextToken,
                   creator, everReg, consumed,
                   nextUserId, issued, supplied>>

\* prisma.event.delete({ where: { id } })
DeleteEventRow(r) ==
    /\ req[r].pc = "deleteRow"
    /\ IF req[r].eid \notin DOMAIN events
       THEN /\ Finish(r, errorHandler(PrismaError("P2025")), TRUE)
            /\ UNCHANGED events
       ELSE IF EventDeleteRestricted(req[r].eid)
       THEN /\ Finish(r, errorHandler(PrismaError("P2003")), TRUE)
            /\ UNCHANGED events
       ELSE /\ events' = [id \in DOMAIN events \ {req[r].eid} |-> events[id]]
            /\ Finish(r, Json(200, "Event deleted successfully"), TRUE)
    /\ UNCHANGED <<users, nextEventId, regs, feedbacks, now, nextToken,
                   creator, everReg, consumed,
                   nextUserId, issued, supplied>>

(***************************************************************************)
(* POST /events/:eventId/register                                          *)
(***************************************************************************)
\* Mutant: the handler without its "Event not found" answer.
RegisterFindEventNoCheck(r) ==
    /\ req[r].pc = "registerFindEvent"
    /\ Goto(r, "registerFindReg")
    /\ UNCHANGED <<users, events, nextEventId, regs, feedbacks, now, nextToken,
                   creator, everReg, consumed,
                   nextUserId, issued, supplied>>

\* prisma.event.findUnique({ where: { id: eventId } })
RegisterFindEvent(r) ==
    /\ req[r].pc = "registerFindEvent"
    /\ IF req[r].eid \notin DOMAIN events
       THEN Finish(r, errorHandler(AppError("Event not found", 404)), TRUE)
       ELSE Goto(r, "registerFindReg")
    /\ UNCHANGED <<users, events, nextEventId, regs, feedbacks, now, nextToken,
                   creator, everReg, consumed,
                   nextUserId, issued, supplied>>

\* prisma.registration.findUnique({ where: { userId_eventId } })
RegisterFindReg(r) ==
    /\ req[r].pc = "registerFindReg"
    /\ IF regs[<<req[r].user, req[r].eid>>] > 0
       THEN Finish(r, errorHandler(AppError("You are already registered for this event", 400)), TRUE)
       ELSE Goto(r, "registerCreate")
    /\ UNCHANGED <<users, events, nextEventId, regs, feedbacks, now, nextToken,
                   creator, everReg, consumed,
                   nextUserId, issued, supplied>>

\* prisma.registration.create({ data: { userId, eventId } })
RegisterCreate(r) ==
    LET p == <<req[r].user, req[r].eid>> IN
    /\ req[r].pc = "registerCreate"
    /\ IF RegistrationFkViolated(req[r].eid)
       THEN /\ Finish(r, errorHandler(PrismaError("P2003")), TRUE)
            /\ UNCHANGED <<regs, everReg>>
       ELSE IF RegistrationUniqueViolated(req[r].user, req[r].eid)
       THEN /\ Finish(r, errorHandler(PrismaError("P2002")), TRUE)
            /\ UNCHANGED <<regs, everReg>>
       ELSE /\ regs' = [regs EXCEPT ![p] = @ + 1]
            /\ everReg' = everReg \cup {p}
            /\ Finish(r, Json(201, "registration"), TRUE)
    /\ UNCHANGED <<users, events, nextEventId, feedbacks, now, nextToken, creator, consumed,
                   nextUserId, issued, supplied>>

(***************************************************************************)
(* DELETE /events/delete/:eventId                                          *)
(***************************************************************************)
\* Mutant: the handler without the count === 0 check.
UnregisterNoCountCheck(r) ==
    /\ req[r].pc = "unregister"
    /\ regs' = [regs EXCEPT ![<<req[r].user, req[r].eid>>] = 0]
    /\ Finish(r, Json(200, "Registration deleted successfully"), TRUE)
    /\ UNCHANGED <<users, events, nextEventId, feedbacks, now, nextToken,
                   creator, everReg, consumed,
                   nextUserId, issued, supplied>>

\* prisma.registration.deleteMany({ where: { userId, eventId } }), then the
\* count check.
Unregister(r) ==
    LET p == <<req[r].user, req[r].eid>>
        count == regs[p]
    IN
    /\ req[r].pc = "unregister"
    /\ regs' = [regs EXCEPT ![p] = 0]
    /\ IF count = 0
       THEN Finish(r, errorHandler(AppError("You are not registered for this event", 400)), TRUE)
       ELSE Finish(r, Json(200, "Registration deleted successfully"), TRUE)
    /\ UNCHANGED <<users, events, nextEventId, feedbacks, now, nextToken,
                   creator, everReg, consumed,
                   nextUserId, issued, supplied>>

(***************************************************************************)
(* POST /events/:eventId/feedback                                          *)
(***************************************************************************)
\* Mutant: the handler without its registration check.
FeedbackFindRegNoCheck(r) ==
    /\ req[r].pc = "feedbackFindReg"
    /\ Goto(r, "feedbackFindExisting")
    /\ UNCHANGED <<users, events, nextEventId, regs, feedbacks, now, nextToken,
                   creator, everReg, consumed,
                   nextUserId, issued, supplied>>

\* Mutant: the check looks the registration up by event alone.
FeedbackFindRegAnyUser(r) ==
    /\ req[r].pc = "feedbackFindReg"
    /\ IF \A u \in UserIds : regs[<<u, req[r].eid>>] = 0
       THEN Finish(r, errorHandler(AppError("You are not registered for this event", 400)), TRUE)
       ELSE Goto(r, "feedbackFindExisting")
    /\ UNCHANGED <<users, events, nextEventId, regs, feedbacks, now, nextToken,
                   creator, everReg, consumed,
                   nextUserId, issued, supplied>>

\* prisma.registration.findUnique({ where: { userId_eventId } })
FeedbackFindReg(r) ==
    /\ req[r].pc = "feedbackFindReg"
    /\ IF regs[<<req[r].user, req[r].eid>>] = 0
       THEN Finish(r, errorHandler(AppError("You are not registered for this event", 400)), TRUE)
       ELSE Goto(r, "feedbackFindExisting")
    /\ UNCHANGED <<users, events, nextEventId, regs, feedbacks, now, nextToken,
                   creator, everReg, consumed,
                   nextUserId, issued, supplied>>

\* Mutant: the handler always inserts.
FeedbackFindExistingAlwaysCreate(r) ==
    /\ req[r].pc = "feedbackFindExisting"
    /\ Goto(r, "feedbackCreate")
    /\ UNCHANGED <<users, events, nextEventId, regs, feedbacks, now, nextToken,
                   creator, everReg, consumed,
                   nextUserId, issued, supplied>>

\* prisma.feedback.findUnique({ where: { userId_eventId } })
FeedbackFindExisting(r) ==
    /\ req[r].pc = "feedbackFindExisting"
    /\ IF Len(feedbacks[<<req[r].user, req[r].eid>>]) > 0
       THEN Goto(r, "feedbackUpdate")
       ELSE Goto(r, "feedbackCreate")
    /\ UNCHANGED <<users, events, nextEventId, regs, feedbacks, now, nextToken,
                   creator, everReg, consumed,
                   nextUserId, issued, supplied>>

\* prisma.feedback.update({ where: { id: existingFeedback.id }, data: { feedback } })
\* The row found earlier is the first (only) row of the pair.
FeedbackUpdate(r) ==
    LET p == <<req[r].user, req[r].eid>> IN
    /\ req[r].pc = "feedbackUpdate"
    /\ IF Len(feedbacks[p]) = 0
       THEN /\ Finish(r, errorHandler(PrismaError("P2025")), TRUE)
            /\ UNCHANGED feedbacks
       ELSE /\ feedbacks' = [feedbacks EXCEPT ![p] = [@ EXCEPT ![1] = req[r].text]]
            /\ Finish(r, Json(200, "feedback"), TRUE)
    /\ UNCHANGED <<users, events, nextEventId, regs, now, nextToken, creator, everReg, consumed,
                   nextUserId, issued, supplied>>

\* prisma.feedback.create({ data: { userId, eventId, feedback } })
FeedbackCreate(r) ==
    LET p == <<req[r].user, req[r].eid>> IN
    /\ req[r].pc = "feedbackCreate"
    /\ IF FeedbackUniqueViolated(req[r].user, req[r].eid)
       THEN /\ Finish(r, errorHandler(PrismaError("P2002")), TRUE)
            /\ UNCHANGED feedbacks
       ELSE /\ feedbacks' = [feedbacks EXCEPT ![p] = Append(@, req[r].text)]
            /\ Finish(r, Json(201, "feedback"), TRUE)
    /\ UNCHANGED <<users, events, nextEventId, regs, now, nextToken, creator, everReg, consumed,
                   nextUserId, issued, supplied>>

(***************************************************************************)
(* POST /password/password-reset                                           *)
(***************************************************************************)
UserWithEmail(email) == { u \in DOMAIN users : users[u].email = email }
UserWithToken(t)     == { u \in DOMAIN users : users[u].resetToken = t }

\* prisma.user.findUnique({ where: { email } }); then uuidv4() and the
\* expiry new Date(Date.now() + 3600000) are computed for the update.
RequestReset(r, email) ==
    /\ Free(r)
    /\ nextToken + InFlight("requestReset") <= MaxTokens
    /\ IF UserWithEmail(email) = {}
       THEN req' = [req EXCEPT ![r] = [IdleReq EXCEPT !.route = "requestReset",
                         !.pc = "done", !.email = email,
                         !.resp = Json(404, "User not found"),
                         !.disconnected = TRUE]]
       ELSE \E u \in UserWithEmail(email) :
               req' = [req EXCEPT ![r] = [IdleReq EXCEPT !.route = "requestReset",
                         !.pc = "resetStore", !.user = u, !.email = email,
                         !.expiry = now + ResetTokenTTL]]
    /\ UNCHANGED <<users, events, nextEventId, regs, feedbacks, now, nextToken,
                   creator, everReg, consumed,
                   nextUserId, issued, supplied>>

\* Mutant: a token the user already has is kept and the new one is only mailed.
ResetStoreKeepsFirst(r) ==
    /\ req[r].pc = "resetStore"
    /\ IF req[r].user \notin DOMAIN users
       THEN /\ Finish(r, errorHandler(PrismaError("P2025")), TRUE)
            /\ UNCHANGED <<users, nextToken>>
       ELSE /\ users' = IF users[req[r].user].resetToken # NoToken
                        THEN users
                        ELSE [users EXCEPT ![req[r].user] =
                                 [@ EXCEPT !.resetToken = nextToken,
                                           !.resetTokenExpiry = req[r].expiry]]
            /\ nextToken' = nextToken + 1
            /\ req' = [req EXCEPT ![r] = [@ EXCEPT !.pc = "mail", !.tokn = nextToken,
                                                   !.disconnected = TRUE]]
    /\ UNCHANGED <<events, nextEventId, regs, feedbacks, now, creator, everReg, consumed,
                   nextUserId, issued, supplied>>

\* prisma.user.update({ where: { id }, data: { resetToken, resetTokenExpiry } });
\* then sendMail is started and the finally block disconnects.
ResetStore(r) ==
    /\ req[r].pc = "resetStore"
    /\ IF req[r].user \notin DOMAIN users
       THEN /\ Finish(r, errorHandler(PrismaError("P2025")), TRUE)
            /\ UNCHANGED <<users, nextToken>>
       ELSE /\ users' = [users EXCEPT ![req[r].user] =
                            [@ EXCEPT !.resetToken = nextToken,
                                      !.resetTokenExpiry = req[r].expiry]]
            /\ nextToken' = nextToken + 1
            /\ req' = [req EXCEPT ![r] = [@ EXCEPT !.pc = "mail", !.tokn = nextToken,
                                                   !.disconnected = TRUE]]
    /\ UNCHANGED <<events, nextEventId, regs, feedbacks, now, creator, everReg, consumed,
                   nextUserId, issued, supplied>>

\* Mutant: a failed delivery withdraws the stored token.
MailCallbackRollsBack(r, delivered) ==
    /\ req[r].pc = "mail"
    /\ req' = [req EXCEPT ![r] = [IdleReq EXCEPT !.route = "requestReset", !.pc = "done",
                    !.tokn = req[r].tokn, !.disconnected = TRUE,
                    !.resp = IF delivered
                             THEN Json(200, "Password reset email sent")
                             ELSE Json(500, "Failed to send password reset email")]]
    /\ users' = IF delivered \/ req[r].user \notin DOMAIN users
                THEN users
                ELSE [users EXCEPT ![req[r].user] =
                         [@ EXCEPT !.resetToken = NoToken, !.resetTokenExpiry = NoExpiry]]
    /\ UNCHANGED <<events, nextEventId, regs, feedbacks, now, nextToken,
                   creator, everReg, consumed,
                   nextUserId, issued, supplied>>

\* The sendMail callback: delivery succeeded or failed.
MailCallback(r, delivered) ==
    /\ req[r].pc = "mail"
    /\ req' = [req EXCEPT ![r] = [IdleReq EXCEPT !.route = "requestReset", !.pc = "done",
                    !.tokn = req[r].tokn, !.disconnected = TRUE,
                    !.resp = IF delivered
                             THEN Json(200, "Password reset email sent")
                             ELSE Json(500, "Failed to send password reset email")]]
    /\ UNCHANGED <<users, events, nextEventId, regs, feedbacks, now, nextToken,
                   creator, everReg, consumed,
                   nextUserId, issued, supplied>>

(***************************************************************************)
(* POST /password/reset-password/:resetToken                               *)
(***************************************************************************)
\* Mutant: the password is stored as it was supplied.
HashIdentity(password) == password

\* bcrypt.hash(password, rounds): never the plaintext.
Hash(password) == <<"bcrypt", password>>

\* Mutant: the expiry of the stored token is not compared with the clock.
ConsumeResetNoExpiryCheck(r, t, newPassword) ==
    /\ Free(r)
    /\ IF UserWithToken(t) = {}
       THEN req' = [req EXCEPT ![r] = [IdleReq EXCEPT !.route = "consumeReset",
                         !.pc = "done", !.tokn = t, !.disconnected = TRUE,
                         !.resp = Json(400, "Invalid or expired reset token")]]
       ELSE \E u \in UserWithToken(t) :
               req' = [req EXCEPT ![r] = [IdleReq EXCEPT !.route = "consumeReset",
                         !.pc = "consumeUpdate", !.user = u, !.tokn = t,
                         !.text = newPassword]]
    /\ UNCHANGED <<users, events, nextEventId, regs, feedbacks, now, nextToken,
                   creator, everReg, consumed,
                   nextUserId, issued, supplied>>

\* prisma.user.findFirst({ where: { resetToken } }), then
\* if (!user || user.resetTokenExpiry < new Date()).
ConsumeReset(r, t, newPassword) ==
    /\ Free(r)
    /\ IF \/ UserWithToken(t) = {}
          \/ \A u \in UserWithToken(t) : users[u].resetTokenExpiry < now
       THEN req' = [req EXCEPT ![r] = [IdleReq EXCEPT !.route = "consumeReset",
                         !.pc = "done", !.tokn = t, !.disconnected = TRUE,
                         !.resp = Json(400, "Invalid or expired reset token")]]
       ELSE \E u \in UserWithToken(t) :
               req' = [req EXCEPT ![r] = [IdleReq EXCEPT !.route = "consumeReset",
                         !.pc = "consumeUpdate", !.user = u, !.tokn = t,
                         !.text = newPassword]]
    /\ UNCHANGED <<users, events, nextEventId, regs, feedbacks, now, nextToken,
                   creator, everReg, consumed,
                   nextUserId, issued, supplied>>

\* Mutant: the update sets the password and leaves the token in place.
ConsumeUpdateKeepsToken(r) ==
    /\ req[r].pc = "consumeUpdate"
    /\ users' = [users EXCEPT ![req[r].user] =
                    [@ EXCEPT !.password = Hash(req[r].text)]]
    /\ supplied' = [supplied EXCEPT ![req[r].user] = req[r].text]
    /\ consumed' = consumed \cup {req[r].tokn}
    /\ req' = [req EXCEPT ![r] = [IdleReq EXCEPT !.route = "consumeReset", !.pc = "done",
                    !.tokn = req[r].tokn, !.disconnected = TRUE,
                    !.resp = Json(200, "Password reset successful")]]
    /\ UNCHANGED <<events, nextEventId, regs, feedbacks, now, nextToken, creator, everReg,
                   nextUserId, issued>>

\* bcrypt.hash(newPassword, 10), then prisma.user.update({ where: { id },
\* data: { password, resetToken: null, resetTokenExpiry: null } }).
ConsumeUpdate(r) ==
    /\ req[r].pc = "consumeUpdate"
    /\ IF req[r].user \notin DOMAIN users
       THEN /\ Finish(r, errorHandler(PrismaError("P2025")), TRUE)
            /\ UNCHANGED <<users, consumed, supplied>>
       ELSE /\ users' = [users EXCEPT ![req[r].user] =
                            [@ EXCEPT !.password = Hash(req[r].text),
                                      !.resetToken = NoToken,
                                      !.resetTokenExpiry = NoExpiry]]
            /\ supplied' = [supplied EXCEPT ![req[r].user] = req[r].text]
            /\ consumed' = consumed \cup {req[r].tokn}
            /\ req' = [req EXCEPT ![r] = [IdleReq EXCEPT !.route = "consumeReset",
                            !.pc = "done", !.tokn = req[r].tokn, !.disconnected = TRUE,
                            !.resp = Json(200, "Password reset successful")]]
    /\ UNCHANGED <<events, nextEventId, regs, feedbacks, now, nextToken, creator, everReg,
                   nextUserId, issued>>

\* Time passes.
Tick(t) ==
    /\ t > now
    /\ now' = t
    /\ UNCHANGED <<users, events, nextEventId, regs, feedbacks, req, nextToken,
                   creator, everReg, consumed,
                   nextUserId, issued, supplied>>

(***************************************************************************)
(* Utils/validate.js                                                       *)
(***************************************************************************)
\* The characters of the strings that requests carry as an email.
Chars(str) ==
    CASE str = "att@x.com" -> <<"a", "t", "t", "@", "x", ".", "c", "o", "m">>
      [] str = "new@x.com" -> <<"n", "e", "w", "@", "x", ".", "c", "o", "m">>
      [] str = "new@x"     -> <<"n", "e", "w", "@", "x">>
      [] str = "new.x.com" -> <<"n", "e", "w", ".", "x", ".", "c", "o", "m">>
      [] str = "n w@x.com" -> <<"n", " ", "w", "@", "x", ".", "c", "o", "m">>
      [] str = "new@.com"  -> <<"n", "e", "w", "@", ".", "c", "o", "m">>
      [] OTHER             -> << >>

\* /^[^\s@]+@[^\s@]+\.[^\s@]+$/ : one "@" after a non-empty local part, then
\* a "." with characters on both sides, and no other "@" or white space.
validateEmail(email) ==
    LET c == Chars(email)
    IN  \E i, j \in 1 .. Len(c) :
           /\ c[i] = "@" /\ c[j] = "."
           /\ 1 < i /\ i + 1 < j /\ j < Len(c)
           /\ \A k \in (1 .. Len(c)) \ {i} : c[k] \notin {"@", " "}

\* password.length >= 8
MinPasswordLength == 8
validatePassword(password) == Len(password) >= MinPasswordLength

NoError == [name |-> "none", code |-> "none", message |-> "", statusCode |-> 0,
            status |-> "none"]

\* validateRegisterData: the error handed to next(), or none. A field the
\* body lacks is the empty string here.
validateRegisterData(email, password, role) ==
    IF email = "" \/ ~validateEmail(email)
    THEN AppError("Valid email is required", 400)
    ELSE IF password = "" \/ ~validatePassword(password)
    THEN AppError("Password must be at least 8 characters long", 400)
    ELSE IF role = "" \/ role \notin Roles
    THEN AppError("Valid role is required (e.g. 'ADMIN', 'ORGANIZER', 'ATTENDEE')", 400)
    ELSE NoError

(***************************************************************************)
(* POST /auth/register                                                     *)
(***************************************************************************)
\* Mutant: the email column carries no unique constraint.
EmailNotUnique(email) == FALSE

\* @unique on User.email
EmailUniqueViolated(email) == UserWithEmail(email) # {}

\* validateRegisterData, bcrypt.hash(password, 12), prisma.user.create and
\* res.status(201).json({ user }): the body is the created row.
RegisterUser(r, email, password, role) ==
    /\ Free(r)
    /\ nextUserId <= Cardinality(UserIds) + MaxNewUsers
    /\ LET invalid == validateRegisterData(email, password, role)
           arrived == [IdleReq EXCEPT !.route = "registerUser", !.pc = "done",
                                      !.email = email, !.text = password, !.role = role]
           user    == [email |-> email, password |-> Hash(password), role |-> role,
                       resetToken |-> NoToken, resetTokenExpiry |-> NoExpiry]
       IN  IF invalid # NoError
           THEN /\ req' = [req EXCEPT ![r] = [arrived EXCEPT !.resp = errorHandler(invalid)]]
                /\ UNCHANGED <<users, nextUserId, supplied>>
           ELSE IF EmailUniqueViolated(email)
           THEN /\ req' = [req EXCEPT ![r] =
                              [arrived EXCEPT !.disconnected = TRUE,
                                  !.resp = errorHandler(AppError("Email already exists", 400))]]
                /\ UNCHANGED <<users, nextUserId, supplied>>
           ELSE /\ users' = [id \in DOMAIN users \cup {nextUserId} |->
                                IF id = nextUserId THEN user ELSE users[id]]
                /\ supplied' = [id \in DOMAIN supplied \cup {nextUserId} |->
                                   IF id = nextUserId THEN password ELSE supplied[id]]
                /\ nextUserId' = nextUserId + 1
                /\ req' = [req EXCEPT ![r] =
                              [arrived EXCEPT !.user = nextUserId, !.disconnected = TRUE,
                                  !.resp = Json(201, ""),
                                  !.body = [kind |-> "user", id |-> nextUserId, user |-> user]]]
    /\ UNCHANGED <<events, nextEventId, regs, feedbacks, now, nextToken,
                   creator, everReg, consumed, issued>>

(***************************************************************************)
(* POST /auth/login, POST /auth/logout                                     *)
(***************************************************************************)
\* bcrypt.compare(password, hash)
Compare(password, hash) == hash = Hash(password)

\* Mutant: an email no user has is answered 404 "User not found".
LoginRevealsUnknownEmail(r, email, password) ==
    /\ Free(r)
    /\ LET arrived == [IdleReq EXCEPT !.route = "login", !.pc = "done", !.email = email,
                                      !.text = password, !.disconnected = TRUE]
       IN  IF UserWithEmail(email) = {}
           THEN /\ req' = [req EXCEPT ![r] =
                              [arrived EXCEPT !.resp = errorHandler(AppError("User not found", 404))]]
                /\ UNCHANGED issued
           ELSE IF \A u \in UserWithEmail(email) : ~Compare(password, users[u].password)
           THEN /\ req' = [req EXCEPT ![r] =
                              [arrived EXCEPT !.resp =
                                  errorHandler(AppError("Incorrect email or password", 401))]]
                /\ UNCHANGED issued
           ELSE \E u \in UserWithEmail(email) :
                   /\ Sign(u, now) \in issued \/ Cardinality(issued) < MaxSessions
                   /\ req' = [req EXCEPT ![r] =
                                 [arrived EXCEPT !.user = u, !.resp = Json(200, ""),
                                     !.body = [kind |-> "token", token |-> Sign(u, now)]]]
                   /\ issued' = issued \cup {Sign(u, now)}
    /\ UNCHANGED <<users, events, nextEventId, regs, feedbacks, now, nextToken,
                   creator, everReg, consumed, nextUserId, supplied>>

\* prisma.user.findUnique({ where: { email } }), bcrypt.compare, jwt.sign
\* and res.status(200).json({ token }).
Login(r, email, password) ==
    /\ Free(r)
    /\ LET arrived == [IdleReq EXCEPT !.route = "login", !.pc = "done", !.email = email,
                                      !.text = password, !.disconnected = TRUE]
       IN  IF \A u \in UserWithEmail(email) : ~Compare(password, users[u].password)
           THEN /\ req' = [req EXCEPT ![r] =
                              [arrived EXCEPT !.resp =
                                  errorHandler(AppError("Incorrect email or password", 401))]]
                /\ UNCHANGED issued
           ELSE \E u \in UserWithEmail(email) :
                   /\ Sign(u, now) \in issued \/ Cardinality(issued) < MaxSessions
                   /\ req' = [req EXCEPT ![r] =
                                 [arrived EXCEPT !.user = u, !.resp = Json(200, ""),
                                     !.body = [kind |-> "token", token |-> Sign(u, now)]]]
                   /\ issued' = issued \cup {Sign(u, now)}
    /\ UNCHANGED <<users, events, nextEventId, regs, feedbacks, now, nextToken,
                   creator, everReg, consumed, nextUserId, supplied>>

\* Mutant: logout withdraws the tokens that were handed out.
LogoutRevokes(r) ==
    /\ Free(r)
    /\ req' = [req EXCEPT ![r] = [IdleReq EXCEPT !.route = "logout", !.pc = "done",
                                                 !.resp = Json(200, "Logout successful")]]
    /\ issued' = {}
    /\ UNCHANGED <<users, events, nextEventId, regs, feedbacks, now, nextToken,
                   creator, everReg, consumed, nextUserId, supplied>>

\* res.status(200).json({ message: "Logout successful" }): no store access,
\* no disconnect.
Logout(r) ==
    /\ Free(r)
    /\ req' = [req EXCEPT ![r] = [IdleReq EXCEPT !.route = "logout", !.pc = "done",
                                                 !.resp = Json(200, "Logout successful")]]
    /\ UNCHANGED <<users, events, nextEventId, regs, feedbacks, now, nextToken,
                   creator, everReg, consumed, nextUserId, issued, supplied>>

(***************************************************************************)
(* DELETE /auth/users/:userId (behind protect; eid carries :userId)        *)
(***************************************************************************)
\* Event.organizerId and Registration.userId reference User.
UserDeleteRestricted(u) ==
    \/ \E e \in DOMAIN events : events[e].organizerId = u
    \/ \E p \in Pairs : p[1] = u /\ regs[p] > 0

\* Mutant: the requester is not compared with the target.
DeleteAccountNoPermissionCheck(r) ==
    /\ req[r].pc = "deleteAccount"
    /\ IF req[r].eid \notin DOMAIN users
       THEN /\ Finish(r, errorHandler(PrismaError("P2025")), FALSE)
            /\ UNCHANGED users
       ELSE IF UserDeleteRestricted(req[r].eid)
       THEN /\ Finish(r, errorHandler(PrismaError("P2003")), FALSE)
            /\ UNCHANGED users
       ELSE /\ users' = [id \in DOMAIN users \ {req[r].eid} |-> users[id]]
            /\ Finish(r, Json(200, "User deleted successfully"), FALSE)
    /\ UNCHANGED <<events, nextEventId, regs, feedbacks, now, nextToken,
                   creator, everReg, consumed, nextUserId, issued, supplied>>

\* The permission check on req.user, then prisma.user.delete({ where: { id } });
\* the handler has no finally block.
DeleteAccount(r) ==
    /\ req[r].pc = "deleteAccount"
    /\ IF req[r].role # "ADMIN" /\ req[r].user # req[r].eid
       THEN /\ Finish(r, Json(403, "You do not have permission to delete this user"), FALSE)
            /\ UNCHANGED users
       ELSE IF req[r].eid \notin DOMAIN users
       THEN /\ Finish(r, errorHandler(PrismaError("P2025")), FALSE)
            /\ UNCHANGED users
       ELSE IF UserDeleteRestricted(req[r].eid)
       THEN /\ Finish(r, errorHandler(PrismaError("P2003")), FALSE)
            /\ UNCHANGED users
       ELSE /\ users' = [id \in DOMAIN users \ {req[r].eid} |-> users[id]]
            /\ Finish(r, Json(200, "User deleted successfully"), FALSE)
    /\ UNCHANGED <<events, nextEventId, regs, feedbacks, now, nextToken,
                   creator, everReg, consumed, nextUserId, issued, supplied>>

(***************************************************************************)
(* Specifications.                                                         *)
(***************************************************************************)
EmailOf == <<"admin@x.com", "org2@x.com", "org3@x.com", "att@x.com">>

InitUsers ==
    [id \in UserIds |->
        [email |-> EmailOf[id],
         password |-> Hash("pw1"),
         role |-> CASE id = 1 -> "ADMIN" [] id = 4 -> "ATTENDEE" [] OTHER -> "ORGANIZER",
         resetToken |-> NoToken, resetTokenExpiry |-> NoExpiry]]

Init ==
    /\ users = InitUsers
    /\ events = << >>
    /\ nextEventId = 1
    /\ regs = [p \in Pairs |-> 0]
    /\ feedbacks = [p \in Pairs |-> << >>]
    /\ req = [s \in Slots |-> IdleReq]
    /\ now = 0
    /\ nextToken = 1
    /\ creator = [e \in EventIds |-> 0]
    /\ everReg = {}
    /\ consumed = {}
    /\ nextUserId = Cardinality(UserIds) + 1
    /\ issued = {}
    /\ supplied = [id \in UserIds |-> "pw1"]

\* The bearer token a logged-in user holds, and a request without a valid one.
TokenOf(u) == Sign(u, 0)
TokensOf(U) == { TokenOf(u) : u \in U \cap DOMAIN users } \cup {BadToken}

Attendee == CHOOSE u \in UserIds : InitUsers[u].role = "ATTENDEE"

RegistrationSteps(r) ==
    \/ RegisterFindEvent(r)
    \/ RegisterFindReg(r)
    \/ RegisterCreate(r)
    \/ Unregister(r)
    \/ FeedbackFindReg(r)
    \/ FeedbackFindExisting(r)
    \/ FeedbackUpdate(r)
    \/ FeedbackCreate(r)

DeleteSteps(r) ==
    \/ DeleteEventFind(r)
    \/ DeleteEventRegs(r)
    \/ DeleteEventRow(r)

\* Registration and feedback, one request at a time (the next request
\* arrives after the previous response): an organizer creates and deletes
\* events, users register, unregister and submit feedback.
Next ==
    \/ \E route \in {"register", "unregister", "feedback"},
          tok \in TokensOf({3, Attendee}), eid \in EventIds, text \in Texts :
          Protect(1, route, tok, eid, text)
    \/ \E route \in {"createEvent", "deleteEvent"}, eid \in EventIds :
          Protect(1, route, TokenOf(2), eid, "t1")
    \/ CreateEvent(1)
    \/ DeleteSteps(1)
    \/ RegistrationSteps(1)

Spec == Init /\ [][Next]_vars

\* Event management, one request at a time: every user and a client
\* without a valid token create, update and delete events; the attendee
\* registers.
NextEvents ==
    \/ \E route \in {"createEvent", "updateEvent", "deleteEvent"},
          tok \in TokensOf(UserIds), eid \in EventIds, text \in Texts :
          Protect(1, route, tok, eid, text)
    \/ \E eid \in EventIds : Protect(1, "register", TokenOf(Attendee), eid, "")
    \/ CreateEvent(1)
    \/ UpdateEventFind(1)
    \/ UpdateEventWrite(1)
    \/ DeleteSteps(1)
    \/ RegisterFindEvent(1)
    \/ RegisterFindReg(1)
    \/ RegisterCreate(1)

SpecEvents == Init /\ [][NextEvents]_vars

\* Event delete against register, requests overlapping: an organizer
\* creates and deletes the event while two users register for it.
NextConc ==
    \E r \in Slots :
       \/ \E route \in {"createEvent", "deleteEvent"}, eid \in EventIds :
             Protect(r, route, TokenOf(2), eid, "t1")
       \/ \E u \in {3, Attendee}, eid \in EventIds :
             Protect(r, "register", TokenOf(u), eid, "")
       \/ CreateEvent(r)
       \/ DeleteSteps(r)
       \/ RegisterFindEvent(r)
       \/ RegisterFindReg(r)
       \/ RegisterCreate(r)

SpecConc == Init /\ [][NextConc]_vars

\* Password reset, one request at a time, while time passes.
NextReset ==
    \/ \E email \in {"org2@x.com", "att@x.com", "nobody@x.com"} : RequestReset(1, email)
    \/ ResetStore(1)
    \/ \E delivered \in BOOLEAN : MailCallback(1, delivered)
    \/ \E t \in ResetTokens, p \in Passwords : ConsumeReset(1, t, p)
    \/ ConsumeUpdate(1)
    \/ \E t \in TimePoints : Tick(t)

SpecReset == Init /\ [][NextReset]_vars

\* A token for user u carrying a signature that jwtSecret did not produce.
Forged(u) == [Sign(u, now) EXCEPT !.signed = FALSE]

\* What a client can put in the Authorization header: a token login handed
\* out, a forged one, or nothing usable.
Bearers == issued \cup {BadToken, Forged(1)}

\* Sessions, one request at a time, while time passes: the admin and the
\* attendee log in and out, and accounts are deleted.
NextAuth ==
    \/ \E email \in {"admin@x.com", "att@x.com", "nobody@x.com"}, p \in Passwords :
          Login(1, email, p)
    \/ Logout(1)
    \/ \E tok \in Bearers, target \in {3, Attendee} :
          Protect(1, "deleteAccount", tok, target, "")
    \/ \E tok \in Bearers, eid \in EventIds : Protect(1, "unregister", tok, eid, "")
    \/ DeleteAccount(1)
    \/ Unregister(1)
    \/ \E t \in TimePoints : Tick(t)

SpecAuth == Init /\ [][NextAuth]_vars

\* Accounts, one request at a time: clients register with well-formed and
\* malformed data, the new user logs in, resets the password and deletes
\* the account, after which the email can be registered again.
NextAccounts ==
    \/ \E email \in {"att@x.com", "new@x.com", "new@x", "n w@x.com"},
          p \in {"short", "longenough"}, role \in {"ATTENDEE", "GUEST"} :
          RegisterUser(1, email, p, role)
    \/ \E p \in {"longenough", "pw2"} : Login(1, "new@x.com", p)
    \/ RequestReset(1, "new@x.com")
    \/ ResetStore(1)
    \/ \E delivered \in BOOLEAN : MailCallback(1, delivered)
    \/ \E t \in ResetTokens : ConsumeReset(1, t, "pw2")
    \/ ConsumeUpdate(1)
    \/ \E tok \in issued : Protect(1, "deleteAccount", tok, tok.id, "")
    \/ DeleteAccount(1)

SpecAccounts == Init /\ [][NextAccounts]_vars

\* Register against register, requests overlapping: once the organizer has
\* created the event, one user sends register requests for it that are
\* served at the same time.
NextRegisterRace ==
    \E r \in Slots :
       \/ Protect(r, "createEvent", TokenOf(2), 0, "t1")
       \/ CreateEvent(r)
       \/ \E eid \in EventIds : Protect(r, "register", TokenOf(Attendee), eid, "")
       \/ RegisterFindEvent(r)
       \/ RegisterFindReg(r)
       \/ RegisterCreate(r)

SpecRegisterRace == Init /\ [][NextRegisterRace]_vars

\* Password reset, requests overlapping: a user requests reset tokens and
\* clients present them at the same time.
NextResetRace ==
    \E r \in Slots :
       \/ RequestReset(r, "att@x.com")
       \/ ResetStore(r)
       \/ \E delivered \in BOOLEAN : MailCallback(r, delivered)
       \/ \E t \in ResetTokens, p \in Passwords : ConsumeReset(r, t, p)
       \/ ConsumeUpdate(r)

SpecResetRace == Init /\ [][NextResetRace]_vars

\* Feedback against feedback, requests overlapping: the organizer creates
\* the event, the attendee registers for it and sends feedback requests
\* that are served at the same time.
NextFeedbackRace ==
    \E r \in Slots :
       \/ Protect(r, "createEvent", TokenOf(2), 0, "t1")
       \/ CreateEvent(r)
       \/ Protect(r, "register", TokenOf(Attendee), 1, "")
       \/ RegisterFindEvent(r)
       \/ RegisterFindReg(r)
       \/ RegisterCreate(r)
       \/ \E text \in Texts : Protect(r, "feedback", TokenOf(Attendee), 1, text)
       \/ FeedbackFindReg(r)
       \/ FeedbackFindExisting(r)
       \/ FeedbackUpdate(r)
       \/ FeedbackCreate(r)

SpecFeedbackRace == Init /\ [][NextFeedbackRace]_vars

(***************************************************************************)
(* Properties.                                                             *)
(***************************************************************************)
\* Slot r is serving a request of this route and takes a step / answers it.
Serving(r, route) == req[r].route = route /\ ~Free(r)
Steps(r)   == req'[r] # req[r]
Answers(r) == ~Free(r) /\ req'[r].pc = "done"
PairOf(r)  == <<req[r].user, req[r].eid>>
DbUnchanged == UNCHANGED <<users, events, nextEventId, regs, feedbacks>>

\* C1: a register request for a pair that already has a Registration row is
\* answered 400 and leaves exactly one row for the pair; a register request
\* for an event id that does not exist is answered 404 and creates no row.
C1_RegisterTwice ==
    [][\A r \in Slots :
          Serving(r, "register") /\ Answers(r) =>
             /\ req[r].eid \notin DOMAIN events =>
                   req'[r].resp.code = 404 /\ regs' = regs
             /\ req[r].eid \in DOMAIN events /\ regs[PairOf(r)] > 0 =>
                   req'[r].resp.code = 400 /\ regs' = regs /\ regs'[PairOf(r)] = 1
             /\ req'[r].resp.code = 201 =>
                   regs[PairOf(r)] = 0 /\ regs'[PairOf(r)] = 1]_vars

C1_Witness ==
    /\ req[1].route = "register" /\ req[1].pc = "done"
    /\ req[1].resp.code = 400
    /\ req[1].resp.message = "You are already registered for this event"
    /\ \E p \in Pairs : regs[p] = 1

C3_FeedbackTwice ==
    [][\A r \in Slots :
          Serving(r, "feedback") /\ Answers(r) /\ regs[PairOf(r)] > 0 =>
             /\ feedbacks'[PairOf(r)] = <<req[r].text>>
             /\ req'[r].resp.code = IF feedbacks[PairOf(r)] = << >> THEN 201 ELSE 200
             /\ \A p \in Pairs \ {PairOf(r)} : feedbacks'[p] = feedbacks[p]]_vars

C3_Witness ==
    /\ req[1].route = "feedback" /\ req[1].pc = "done"
    /\ req[1].resp.code = 200
    /\ \E p \in Pairs : regs[p] = 1 /\ feedbacks[p] = <<"t2">>

\* C4: a feedback request whose registration lookup finds no row for the
\* pair is answered 400 and neither creates nor modifies a Feedback row.
C4_FeedbackNotRegistered ==
    [][\A r \in Slots :
          req[r].pc = "feedbackFindReg" /\ Steps(r) /\ regs[PairOf(r)] = 0 =>
             /\ req'[r].pc = "done"
             /\ req'[r].resp.code = 400
             /\ req'[r].resp.status = "fail"
             /\ DbUnchanged]_vars

C4_Witness ==
    /\ req[1].route = "feedback" /\ req[1].pc = "done"
    /\ req[1].resp.code = 400
    /\ req[1].resp.message = "You are not registered for this event"
    /\ \E p \in Pairs : regs[p] = 0 /\ feedbacks[p] # << >>

\* C5 as stated: every Feedback row (u,e) has a Registration row for (u,e).
C5_FeedbackHasRegistration ==
    \A p \in Pairs : feedbacks[p] # << >> => regs[p] > 0

\* C5 amended: every Feedback row (u,e) is for a pair that has had a
\* Registration row before; the Feedback row may outlive that Registration
\* (unregister and event delete remove Registration rows only).
C5_FeedbackHadRegistration ==
    \A p \in Pairs : feedbacks[p] # << >> => p \in everReg

C5_Witness ==
    \E p \in Pairs : feedbacks[p] # << >> /\ regs[p] = 0 /\ p \in everReg

EventWriteRoutes == {"createEvent", "updateEvent", "deleteEvent"}

\* C6: whatever step the handler of create, update or delete takes for a
\* requester whose role is ATTENDEE, it answers 403 and leaves the store
\* unchanged, whether or not the event id exists.
C6_AttendeeForbidden ==
    [][\A r \in Slots :
          /\ ~Free(r) /\ req[r].route \in EventWriteRoutes
          /\ req[r].role = "ATTENDEE" /\ Steps(r)
          => /\ req'[r].pc = "done"
             /\ req'[r].resp.code = 403
             /\ DbUnchanged]_vars

C6_Witness ==
    /\ req[1].route = "deleteEvent" /\ req[1].pc = "done"
    /\ req[1].resp = errorHandler(AppError("You do not have permission to perform this action", 403))
    /\ events # << >>
    /\ \E p \in Pairs : regs[p] > 0

\* The requester of r is the event's owning organizer or an ADMIN.
MayManage(r) ==
    events[req[r].eid].organizerId = req[r].user \/ req[r].role = "ADMIN"

\* C7: for a requester that is not an ATTENDEE, update and delete answer 404
\* for an unknown event id, 403 with the store unchanged when the requester
\* is neither the owning organizer nor an ADMIN, and 200 otherwise; an event
\* row changes or disappears only in a step of a request made by its
\* organizer or by an ADMIN.
C7_OwnerOrAdmin ==
    [][/\ \A r \in Slots :
             /\ ~Free(r) /\ req[r].route \in {"updateEvent", "deleteEvent"}
             /\ req[r].role # "ATTENDEE" /\ req'[r].pc = "done"
             => IF req[r].eid \notin DOMAIN events
                THEN req'[r].resp.code = 404 /\ DbUnchanged
                ELSE IF ~MayManage(r)
                THEN req'[r].resp.code = 403 /\ DbUnchanged
                ELSE req'[r].resp.code = 200
       /\ \A e \in DOMAIN events :
             (e \notin DOMAIN events' \/ events'[e] # events[e])
             => \E r \in Slots :
                   /\ ~Free(r) /\ req[r].eid = e
                   /\ req[r].route \in {"updateEvent", "deleteEvent"}
                   /\ MayManage(r)]_vars

C7_Witness ==
    /\ req[1].route = "deleteEvent" /\ req[1].pc = "done"
    /\ req[1].resp = Json(403, "Forbidden: You do not have permission to delete this event")
    /\ events # << >>

\* C8: create answers 201 only for an ORGANIZER, and then the new event's
\* organizerId is the requester's id; any other role is answered 403 and no
\* event is created; in every state each event's organizerId is the id of
\* the user who created it, who is an ORGANIZER.
C8_OrganizerCreates ==
    /\ [][\A r \in Slots :
             Serving(r, "createEvent") /\ Steps(r) =>
                IF req[r].role = "ORGANIZER"
                THEN /\ req'[r].resp.code = 201
                     /\ DOMAIN events' = DOMAIN events \cup {nextEventId}
                     /\ nextEventId \notin DOMAIN events
                     /\ events'[nextEventId].organizerId = req[r].user
                ELSE req'[r].resp.code = 403 /\ DbUnchanged]_vars
    /\ [](\A e \in DOMAIN events :
             /\ events[e].organizerId = creator[e]
             /\ creator[e] \in DOMAIN users
             /\ users[creator[e]].role = "ORGANIZER")

C8_Witness ==
    /\ req[1].route = "updateEvent" /\ req[1].pc = "done"
    /\ req[1].resp.code = 200
    /\ \E e \in DOMAIN events : events[e].title = "t2" /\ events[e].organizerId = creator[e]

ConsumeArrives(r) == Free(r) /\ Steps(r) /\ req'[r].route = "consumeReset"
Holder(t) == { u \in DOMAIN users : users[u].resetToken = t /\ users[u].resetTokenExpiry >= now }

\* C10: a reset-password request with a token that a user holds and whose
\* expiry has not passed is accepted, and then answered 200 with the hash of
\* the new password stored and resetToken and resetTokenExpiry set to null;
\* with a token that was accepted before it is answered 400.
C10_TokenSingleUse ==
    [][\A r \in Slots :
          /\ ConsumeArrives(r) =>
                /\ Holder(req'[r].tokn) # {} =>
                      req'[r].pc = "consumeUpdate" /\ req'[r].user \in Holder(req'[r].tokn)
                /\ req'[r].tokn \in consumed =>
                      req'[r].pc = "done" /\ req'[r].resp.code = 400 /\ DbUnchanged
          /\ req[r].pc = "consumeUpdate" /\ Steps(r) =>
                /\ req'[r].resp.code = 200
                /\ users'[req[r].user].password = Hash(req[r].text)
                /\ users'[req[r].user].password # req[r].text
                /\ users'[req[r].user].resetToken = NoToken
                /\ users'[req[r].user].resetTokenExpiry = NoExpiry]_vars

C10_Witness ==
    /\ req[1].route = "consumeReset" /\ req[1].pc = "done"
    /\ req[1].resp.code = 400
    /\ req[1].tokn \in consumed
    /\ \E u \in DOMAIN users : users[u].password = Hash("pw2")

\* C11: a consumeReset request whose token no user holds, or whose holder
\* has a stored expiry earlier than the current time, is answered 400
\* 'Invalid or expired reset token' at once, and the step leaves every
\* user's password, resetToken and resetTokenExpiry as they were.
Expired(t) == { u \in DOMAIN users : users[u].resetToken = t /\ users[u].resetTokenExpiry < now }

C11_InvalidOrExpired ==
    [][\A r \in Slots :
          ConsumeArrives(r) /\ (UserWithToken(req'[r].tokn) = {} \/ Expired(req'[r].tokn) # {}) =>
             /\ req'[r].pc = "done"
             /\ req'[r].resp.code = 400
             /\ req'[r].resp.message = "Invalid or expired reset token"
             /\ \A u \in DOMAIN users :
                   /\ u \in DOMAIN users'
                   /\ users'[u].password = users[u].password
                   /\ users'[u].resetToken = users[u].resetToken
                   /\ users'[u].resetTokenExpiry = users[u].resetTokenExpiry]_vars

C11_Witness ==
    /\ req[1].route = "consumeReset" /\ req[1].pc = "done"
    /\ req[1].resp.code = 400
    /\ Expired(req[1].tokn) # {}

\* C12: a requestReset for an email no user has is answered 404 'User not
\* found' and changes no user; for a known email the handler stores a token
\* no user holds, with expiry = request time + one hour, on that user and on
\* no other, before the mail is attempted; the mail callback answers 200 or
\* 500 and writes nothing, so after a 500 the token is still stored and a
\* consumeReset presenting it before its expiry is accepted.
RequestArrives(r) == Free(r) /\ Steps(r) /\ req'[r].route = "requestReset"

LoginAnswers(r) == Free(r) /\ Steps(r) /\ req'[r].route = "login"
Matches(email, password) ==
    { u \in UserWithEmail(email) : users[u].password = Hash(password) }
LoginRefused == [code |-> 401, status |-> "fail", message |-> "Incorrect email or password"]

ProtectedRoutes == {"createEvent", "updateEvent", "deleteEvent", "register",
                    "unregister", "feedback", "deleteAccount"}
ProtectArrives(r) == Free(r) /\ Steps(r) /\ req'[r].route \in ProtectedRoutes

C14_LoginRoundTrip ==
    [][\A r \in Slots :
          /\ LoginAnswers(r) /\ Matches(req'[r].email, req'[r].text) # {} =>
                /\ req'[r].resp.code = 200
                /\ req'[r].body.kind = "token"
                /\ req'[r].body.token.id \in Matches(req'[r].email, req'[r].text)
                /\ Verify(req'[r].body.token)
                /\ req'[r].body.token \in issued'
          /\ /\ ProtectArrives(r)
             /\ req'[r].auth \in issued /\ Verify(req'[r].auth)
             /\ req'[r].auth.id \in DOMAIN users
             => /\ req'[r].pc # "done"
                /\ req'[r].user = req'[r].auth.id
                /\ req'[r].role = users[req'[r].auth.id].role]_vars

C14_Witness ==
    /\ req[1].route = "deleteAccount" /\ req[1].pc = "deleteAccount"
    /\ req[1].auth \in issued
    /\ req[1].user = Attendee /\ req[1].auth.id = Attendee
    /\ now > 0

\* C15: a protected request whose token is missing, malformed, wrongly
\* signed or expired is answered 401 by protect; one whose token verifies
\* while its id resolves to no user is answered 404; neither step writes to
\* the store; and a protected handler is entered only with a verified token
\* and the live user of its id attached.
C15_ProtectGate ==
    [][\A r \in Slots :
          ProtectArrives(r) =>
             /\ DbUnchanged
             /\ ~Verify(req'[r].auth) =>
                   /\ req'[r].pc = "done"
                   /\ req'[r].resp.code = 401 /\ req'[r].resp.message = "Not authorized"
             /\ Verify(req'[r].auth) /\ req'[r].auth.id \notin DOMAIN users =>
                   /\ req'[r].pc = "done"
                   /\ req'[r].resp.code = 404
                   /\ req'[r].resp.message = "No user found with this id"
             /\ req'[r].pc # "done" =>
                   /\ Verify(req'[r].auth)
                   /\ req'[r].auth.id \in DOMAIN users
                   /\ req'[r].user = req'[r].auth.id]_vars

C15_Witness ==
    /\ req[1].route \in ProtectedRoutes /\ req[1].pc = "done"
    /\ req[1].resp.code = 404
    /\ req[1].auth \in issued /\ Verify(req[1].auth)
    /\ req[1].auth.id \notin DOMAIN users

C15_WitnessExpired ==
    /\ req[1].route \in ProtectedRoutes /\ req[1].pc = "done"
    /\ req[1].resp.code = 401
    /\ req[1].auth \in issued /\ ~Verify(req[1].auth)

\* C16: a logout step is answered 200 and changes nothing but the slot that
\* served it: the store, the clock and the tokens handed out stay as they
\* were; a protected request that follows it with a token handed out
\* earlier, unexpired and of an existing user, gets past protect.
LogoutAnswers(r) == Free(r) /\ Steps(r) /\ req'[r].route = "logout"

DeleteServes(r) == req[r].pc = "deleteAccount" /\ Steps(r)
MayDelete(r) == req[r].role = "ADMIN" \/ req[r].user = req[r].eid

C17_DeleteAccount ==
    [][/\ \A r \in Slots :
             DeleteServes(r) =>
                /\ ~MayDelete(r) =>
                      /\ req'[r].resp.code = 403
                      /\ users' = users
                /\ req'[r].resp.code = 200 =>
                      /\ MayDelete(r)
                      /\ req[r].eid \in DOMAIN users
                      /\ DOMAIN users' = DOMAIN users \ {req[r].eid}
                      /\ \A u \in DOMAIN users' : users'[u] = users[u]
                /\ req'[r].resp.code # 200 => users' = users
       /\ DOMAIN users \ DOMAIN users' # {} =>
             \E r \in Slots : DeleteServes(r) /\ MayDelete(r)]_vars

C17_Witness ==
    /\ req[1].route = "deleteAccount" /\ req[1].pc = "done"
    /\ req[1].resp.code = 403
    /\ req[1].resp.message = "You do not have permission to delete this user"
    /\ Attendee \in DOMAIN users /\ 3 \in DOMAIN users

\* C18: a user registration whose email is malformed, whose password has
\* fewer than 8 characters, whose role is not ADMIN, ORGANIZER or ATTENDEE,
\* or whose email a user already has, is answered 400 and creates no user;
\* any other registration is answered 201 and adds exactly one user, under
\* a new id, with the email and role of the request; and after every step
\* no two users have the same email.
RegisterAnswers(r) == Free(r) /\ Steps(r) /\ req'[r].route = "registerUser"
WellFormedEmails == {"att@x.com", "new@x.com"}
Rejected(r) ==
    \/ req'[r].email \notin WellFormedEmails
    \/ Len(req'[r].text) < 8
    \/ req'[r].role \notin {"ADMIN", "ORGANIZER", "ATTENDEE"}
    \/ \E u \in DOMAIN users : users[u].email = req'[r].email

C18_RegisterValidates ==
    [][/\ \A r \in Slots :
             RegisterAnswers(r) =>
                /\ Rejected(r) =>
                      /\ req'[r].resp.code = 400
                      /\ users' = users
                /\ ~Rejected(r) =>
                      /\ req'[r].resp.code = 201
                      /\ req'[r].body.kind = "user"
                      /\ req'[r].body.id \notin DOMAIN users
                      /\ DOMAIN users' = DOMAIN users \cup {req'[r].body.id}
                      /\ users'[req'[r].body.id].email = req'[r].email
                      /\ users'[req'[r].body.id].role = req'[r].role
                      /\ \A u \in DOMAIN users : users'[u] = users[u]
       /\ \A u, v \in DOMAIN users' : u # v => users'[u].email # users'[v].email]_vars

C18_Witness ==
    /\ req[1].route = "registerUser" /\ req[1].pc = "done"
    /\ req[1].resp.code = 400
    /\ req[1].resp.message = "Email already exists"
    /\ req[1].email = "new@x.com"
    /\ Cardinality(UserWithEmail("new@x.com")) = 1

\* C19: the body of a 201 answer to a user registration does not contain
\* the password hash stored for the created user.
C19_ResponseOmitsHash ==
    [][\A r \in Slots :
          RegisterAnswers(r) /\ req'[r].resp.code = 201 =>
             /\ "password" \notin DOMAIN req'[r].body.user
             /\ \A f \in DOMAIN req'[r].body.user :
                   req'[r].body.user[f] # users'[req'[r].body.id].password]_vars

\* C20: in every reachable state the password stored for a user is the hash
\* of the plaintext last supplied for that user, at its registration or at
\* a consumeReset that was accepted, and differs from that plaintext.
C20_PasswordHashed ==
    \A u \in DOMAIN users :
       /\ users[u].password = Hash(supplied[u])
       /\ users[u].password # supplied[u]

C20_Witness ==
    \E u \in DOMAIN users :
       /\ u > Cardinality(UserIds)
       /\ supplied[u] = "pw2"
       /\ users[u].password = Hash("pw2")

\* C21: every response with an error code (400 or above) carries a status
\* field, "fail" when the code is 4xx and "error" otherwise, next to its
\* message.
ErrorStatus(code) == IF code \in 400 .. 499 THEN "fail" ELSE "error"

C21_ErrorShape ==
    \A r \in Slots :
       req[r].pc = "done" /\ req[r].resp.code >= 400 =>
          req[r].resp.status = ErrorStatus(req[r].resp.code)

\* C22: a response errorHandler built from an error that is neither an
\* AppError nor a duplicate-key error (the store's foreign-key and
\* record-not-found errors) has code 500 and a message that is none of the
\* store's own error texts.
StoreMessages == {P2002Message, P2003Message, P2025Message}
FromStoreError(resp) ==
    resp.status = "error" /\ resp.message # "Duplicate field value entered."

C22_GenericServerError ==
    \A r \in Slots :
       req[r].pc = "done" /\ FromStoreError(req[r].resp) =>
          req[r].resp.code = 500 /\ req[r].resp.message \notin StoreMessages

\* C23: while register requests of one user for one existing event overlap
\* in any order, the pair never has more than one Registration row; a
\* request is answered 201 only by the step that inserts the first row, and
\* every request answered after that is answered 400 and inserts nothing.
C23_RegisterRace ==
    [][\A r \in Slots :
          /\ \A p \in Pairs : regs'[p] <= 1
          /\ Serving(r, "register") /\ Answers(r) /\ req[r].eid \in DOMAIN events =>
                /\ req'[r].resp.code \in {201, 400}
                /\ regs[PairOf(r)] = 0 =>
                      req'[r].resp.code = 201 /\ regs'[PairOf(r)] = 1
                /\ regs[PairOf(r)] > 0 =>
                      req'[r].resp.code = 400 /\ regs' = regs]_vars

C23_Witness ==
    /\ \A r \in Slots : req[r].route = "register" /\ req[r].pc = "done"
    /\ req[1].resp.code = 201
    /\ req[2].resp.code = 400
    /\ req[2].resp.message = "Duplicate field value entered."
    /\ regs[<<Attendee, 1>>] = 1

\* C24: of the consumeReset requests that present one token, at most one
\* is answered 200: no two slots hold a 200 answer for the same token.
C24_ConsumeRace ==
    \A r, s \in Slots :
       /\ r # s
       /\ req[r].route = "consumeReset" /\ req[r].pc = "done" /\ req[r].resp.code = 200
       /\ req[s].route = "consumeReset" /\ req[s].pc = "done"
       /\ req[s].tokn = req[r].tokn
       => req[s].resp.code = 400

\* C25: while feedback requests for one registered pair overlap in any
\* order, the pair never has more than one Feedback row, and every such
\* request is answered 201 or 200.
C25_FeedbackRace ==
    [][\A r \in Slots :
          /\ \A p \in Pairs : Len(feedbacks'[p]) <= 1
          /\ Serving(r, "feedback") /\ Answers(r) /\ regs[PairOf(r)] > 0 =>
                req'[r].resp.code \in {200, 201}]_vars

\* C26: every request that has been answered has had the persistence
\* client disconnected by the time of its answer.
C26_DisconnectAlways ==
    \A r \in Slots : req[r].pc = "done" => req[r].disconnected

\* C27: the update of a requestReset replaces the token and expiry the user
\* had: afterwards the user holds the new token and no user holds the one it
\* replaced; a consumeReset presenting a token that no user holds any more
\* is answered 400, and one presenting the token a user holds now, before
\* its expiry, is accepted for that user.
C27_OneTokenPerUser ==
    [][\A r \in Slots :
          /\ req[r].pc = "resetStore" /\ Steps(r) /\ req[r].user \in DOMAIN users =>
                /\ users'[req[r].user].resetToken = req'[r].tokn
                /\ users'[req[r].user].resetTokenExpiry = req[r].expiry
                /\ req'[r].tokn # users[req[r].user].resetToken
                /\ users[req[r].user].resetToken # NoToken =>
                      \A u \in DOMAIN users' :
                         users'[u].resetToken # users[req[r].user].resetToken
          /\ ConsumeArrives(r) =>
                /\ UserWithToken(req'[r].tokn) = {} =>
                      req'[r].pc = "done" /\ req'[r].resp.code = 400 /\ users' = users
                /\ Holder(req'[r].tokn) # {} =>
                      /\ req'[r].pc = "consumeUpdate"
                      /\ users[req'[r].user].resetToken = req'[r].tokn]_vars

C27_Witness ==
    /\ req[1].route = "consumeReset" /\ req[1].pc = "done"
    /\ req[1].resp.code = 400
    /\ req[1].tokn \notin consumed
    /\ UserWithToken(req[1].tokn) = {}
    /\ \E u \in DOMAIN users :
          /\ users[u].resetToken > req[1].tokn
          /\ users[u].resetTokenExpiry >= now

====
